---- MODULE Spec2Model ----
(***************************************************************************)
(* A model of amazon-high-value-item-sniper-bot.py: the AmazonUltraFastBot *)
(* object, its signal handler, its monitor loop with the two concurrent    *)
(* stock checks, and ultra_fast_purchase with its six strategy threads.    *)
(*                                                                         *)
(* The state is the state after __init__ (browser open, handlers           *)
(* installed, purchase record loaded).  The main thread then either runs   *)
(* the program's own entry point (mode "main": checker.monitor() followed  *)
(* by the finally/atexit cleanups) or is a caller of the public method     *)
(* ultra_fast_purchase (mode "api"), which nothing in the file calls.      *)
(* Browser and network answers are inputs, drawn with \E.                  *)
(***************************************************************************)
EXTENDS Naturals, Integers, Sequences, FiniteSets

\* ---- bounds of the model
MaxPrice == 1        \* max_price of the configuration; prices are 1..MaxPrice+1
MaxNesting == 2      \* signal handler frames that may be stacked
MaxLeftover == 1     \* unfinished stock-check tasks of earlier iterations
MaxRestarts == 1     \* recursive monitor() restarts
MaxRounds == 2       \* calls of ultra_fast_purchase per bot
MaxLingering == 1    \* strategies of an earlier round still active at a new call

\* ---- program constants
ForceWindow == 2     \* seconds within which a second Ctrl-C forces the exit
ApiCheckEvery == 5   \* a stock check every fifth loop iteration
NumStrategies == 6   \* strategies submitted per round
PurchaseWorkers == 6 \* max_workers of purchase_pool
NoPrice == 0         \* current_price = None

ThisUrl == "product_url"
Prices == 1..(MaxPrice + 1)
Strategies == 1..NumStrategies

VARIABLES
  \* module globals
  exit_requested, exit_in_progress,
  \* fields of the bot
  self_exit_requested, driver, browser_pid, pools_shutdown,
  purchase_record, file, purchase_attempted, purchase_successful,
  current_price, has_last_ctrl_c_time, since_ctrl_c,
  \* the main thread: what it runs, where it is, monitor's locals
  mode, pc, depth, api_check_counter, is_in_stock, price, hstack,
  \* futures of async_check_stock and tasks left running by earlier calls
  api_future, browser_future, leftover,
  \* ultra_fast_purchase: the round's futures, earlier rounds' strategies
  strategy, lingering, rounds, ufp_return,
  \* bots constructed so far over the file
  runs,
  \* observations (history of what the code did; no code reads them)
  obs

vars == <<exit_requested, exit_in_progress, self_exit_requested, driver,
          browser_pid, pools_shutdown, purchase_record, file,
          purchase_attempted, purchase_successful, current_price,
          has_last_ctrl_c_time, since_ctrl_c, mode, pc, depth,
          api_check_counter, is_in_stock, price, hstack, api_future,
          browser_future, leftover, strategy, lingering, rounds,
          ufp_return, runs, obs>>

globalVars == <<exit_requested, exit_in_progress>>
browserVars == <<self_exit_requested, driver, browser_pid, pools_shutdown>>
recordVars == <<purchase_record, file, purchase_successful>>
clockVars == <<has_last_ctrl_c_time, since_ctrl_c>>
monitorLocals == <<depth, api_check_counter, is_in_stock, price>>
checkVars == <<api_future, browser_future, leftover>>
ufpVars == <<strategy, lingering, rounds, ufp_return>>

\* ---- the purchase record file
\* json.dump writes the whole dict; open(..., 'w') truncates first, and a
\* truncated or half-written file is not valid JSON.
Truncated == [valid |-> FALSE, keys |-> {}]
Dumped(record) == [valid |-> TRUE, keys |-> record]

\* load_purchase_record: json.load of the file, {} when it raises.
load_purchase_record(f) == IF f.valid THEN f.keys ELSE {}

has_been_purchased == ThisUrl \in purchase_record

\* ---- futures
NoFuture == [st |-> "none", result |-> FALSE, seen |-> NoPrice]
Pending == [st |-> "pending", result |-> FALSE, seen |-> NoPrice]

NoObs == [entry_recorded |-> FALSE, call_checked |-> FALSE,
          call_attempted |-> FALSE, iter_attempt |-> FALSE,
          clicked |-> FALSE, marked |-> FALSE, check_after_stop |-> FALSE,
          after_click |-> FALSE,
          ignored_in_window |-> FALSE, forced |-> FALSE,
          blocked_entry |-> FALSE, submitted |-> FALSE,
          idle_round |-> FALSE, prev_successful |-> FALSE,
          round_clicks |-> 0, on_checkout |-> FALSE,
          quits |-> 0, bn_clicked |-> FALSE]

\* The state after __init__ of a bot over file f, run in mode m.
Constructed(f, m, n, o) ==
  /\ exit_requested = FALSE /\ exit_in_progress = FALSE
  /\ self_exit_requested = FALSE
  /\ driver = "chrome" /\ browser_pid = "pid" /\ pools_shutdown = FALSE
  /\ purchase_record = load_purchase_record(f) /\ file = f
  /\ purchase_attempted = FALSE /\ purchase_successful = FALSE
  /\ current_price = NoPrice
  /\ has_last_ctrl_c_time = FALSE /\ since_ctrl_c = 0
  /\ mode = m /\ pc = IF m = "main" THEN "m_entry" ELSE "u_idle"
  /\ depth = 0 /\ api_check_counter = 0
  /\ is_in_stock = FALSE /\ price = NoPrice /\ hstack = <<>>
  /\ api_future = NoFuture /\ browser_future = NoFuture
  /\ leftover = [k \in {"api", "browser"} |-> 0]
  /\ strategy = [s \in Strategies |-> "none"]
  /\ lingering = [running |-> 0, marking |-> 0]
  /\ rounds = 0 /\ ufp_return = "none"
  /\ runs = n /\ obs = o

Init ==
  \E f \in {Dumped({}), Dumped({ThisUrl})}, m \in {"main", "api"} :
    Constructed(f, m, 1, NoObs)

Alive == pc \notin {"exited", "killed", "constructed"}

\* ---- browser shutdown
\* cleanup (lines 257-288): driver.quit() (its failure is caught), both
\* pools shut down without waiting, driver and browser_pid cleared; nothing
\* but the flag when the driver is already None.
cleanup ==
  /\ self_exit_requested' = TRUE
  /\ IF driver = "None"
       THEN UNCHANGED <<driver, browser_pid, pools_shutdown>>
       ELSE /\ driver' = "None"
            /\ browser_pid' = "None"
            /\ pools_shutdown' = TRUE

\* line 261 passed: the call goes on to driver.quit().
CleanupQuits == driver # "None"
\* The calls of driver.quit() that cleanup has made, counted up to two, after
\* one more call of cleanup.
QuitsAfterCleanup ==
  IF CleanupQuits THEN (IF obs.quits = 0 THEN 1 ELSE 2) ELSE obs.quits
\* cleanup in two steps, where a signal can find the main thread inside
\* driver.quit(): lines 259-267, up to the call of driver.quit(), ...
cleanup_to_quit ==
  /\ self_exit_requested' = TRUE
  /\ UNCHANGED <<driver, browser_pid, pools_shutdown>>
\* ... and lines 268-288, from its return on.
cleanup_after_quit ==
  /\ driver' = "None"
  /\ browser_pid' = "None"
  /\ pools_shutdown' = TRUE
  /\ UNCHANGED self_exit_requested

\* _verify_browser_closed (lines 229-255): kills a browser that still runs,
\* then clears both fields whatever it found.
VerifyClearsPid == "None"
verify_browser_closed ==
  /\ driver' = "None"
  /\ browser_pid' = VerifyClearsPid
  /\ UNCHANGED <<self_exit_requested, pools_shutdown>>

\* _force_close_browser (lines 199-227).
force_close_browser ==
  /\ driver' = "None"
  /\ browser_pid' = "None"
  /\ UNCHANGED <<self_exit_requested, pools_shutdown>>

\* ---- where a SystemExit raised by the handler lands in the main thread
\* A bare "except:" catches it and the code goes on; "except Exception"
\* and code outside any try let it propagate to the enclosing finally.
Propagating == {"m_while", "m_iter", "m_check", "m_wait", "m_decide",
                "m_sleep", "m_except", "a_load", "a_buy_now", "a_cart"}
InOrderLoop == {"a_bn_order", "a_bn_mark", "a_bn_cleanup", "a_bn_quit",
                "a_cart_order", "a_cart_mark", "a_cart_cleanup",
                "a_cart_quit"}

ExitTargets(p, d) ==
  CASE p \in Propagating -> {<<"m_finally", d>>}
    [] p \in {"m_entry", "m_entry_quit", "m_finally"} ->
         IF d > 0 THEN {<<"m_finally", d - 1>>} ELSE {<<"main_finally", 0>>}
    [] p = "m_refresh" -> {<<"m_check", d>>}
    [] p \in InOrderLoop -> {<<"a_after", d>>}
    [] p = "a_cart_checkout" ->
         {<<"m_finally", d>>, <<"a_after", d>>, <<"a_cart_order", d>>}
    [] p = "a_after" -> {<<"m_finally", d>>, <<"a_after", d>>}
    [] p = "main_finally" -> {<<"atexit", 0>>}
    [] p = "atexit" -> {<<"exited", 0>>}
    [] OTHER -> {<<p, d>>}

\* ---- signal_handler (lines 168-197), run on the main thread's stack
Top == hstack[Len(hstack)]
SetTop(h) == [hstack EXCEPT ![Len(hstack)] = h]
Pop == SubSeq(hstack, 1, Len(hstack) - 1)

\* The places in async_check_stock where a signal can find the main thread.
InResult == {"m_result_api", "m_result_browser"}
InterruptedAt ==
  IF pc = "m_wait" /\ hstack = <<>>
  THEN {"m_wait"}
       \cup (IF api_future.st = "done" THEN {"m_result_api"} ELSE {})
       \cup (IF browser_future.st = "done" THEN {"m_result_browser"} ELSE {})
  ELSE {pc}

\* SIGINT or SIGTERM is delivered: the interpreter calls the handler on top
\* of whatever the main thread runs, another handler call included.
\* While the main thread collects the checks (lines 1082-1090) the signal
\* finds it either waiting in as_completed, outside the try, or inside
\* future.result() of a future that has already finished, inside it.
Signal ==
  /\ mode = "main" /\ Alive
  /\ Len(hstack) < MaxNesting
  /\ hstack' = Append(hstack, "h172")
  /\ pc' \in InterruptedAt
  /\ UNCHANGED <<globalVars, browserVars, recordVars, purchase_attempted,
                 current_price, clockVars, mode, monitorLocals,
                 checkVars, ufpVars, runs, obs>>

\* A handler without the test of line 172 (C21 does not hold of it).
NeverInProgress == FALSE
\* line 172.
AlreadyInProgress == exit_in_progress

\* line 172: exit already in progress: print and return.
HandlerAlreadyInProgress ==
  /\ hstack # <<>> /\ Top = "h172"
  /\ AlreadyInProgress
  /\ hstack' = Pop
  /\ obs' = [obs EXCEPT !.ignored_in_window =
                          @ \/ (has_last_ctrl_c_time /\ since_ctrl_c < ForceWindow)]
  /\ UNCHANGED <<globalVars, browserVars, recordVars, purchase_attempted,
                 current_price, clockVars, mode, pc, monitorLocals,
                 checkVars, ufpVars, runs>>

HandlerEnter ==
  /\ hstack # <<>> /\ Top = "h172"
  /\ ~AlreadyInProgress
  /\ hstack' = SetTop("h177")
  /\ UNCHANGED <<globalVars, browserVars, recordVars, purchase_attempted,
                 current_price, clockVars, mode, pc, monitorLocals,
                 checkVars, ufpVars, runs, obs>>

\* line 179: a second press within the window.
WithinWindow == has_last_ctrl_c_time /\ since_ctrl_c < ForceWindow

\* lines 177-184: force close and os._exit(0): every thread ends.
HandlerForce ==
  /\ hstack # <<>> /\ Top = "h177"
  /\ WithinWindow
  /\ exit_in_progress' = TRUE
  /\ force_close_browser
  /\ exit_requested' = TRUE
  /\ pc' = "killed" /\ hstack' = <<>>
  /\ api_future' = NoFuture /\ browser_future' = NoFuture
  /\ leftover' = [k \in {"api", "browser"} |-> 0]
  /\ obs' = [obs EXCEPT !.forced = TRUE]
  /\ UNCHANGED <<recordVars, purchase_attempted, current_price, clockVars,
                 mode, monitorLocals, ufpVars, runs>>

\* lines 177-187: first press: remember the time and go on to the clean exit.
HandlerFirstPress ==
  /\ hstack # <<>> /\ Top = "h177"
  /\ ~WithinWindow
  /\ exit_in_progress' = TRUE
  /\ has_last_ctrl_c_time' = TRUE /\ since_ctrl_c' = 0
  /\ hstack' = SetTop("h189")
  /\ UNCHANGED <<exit_requested, browserVars, recordVars, purchase_attempted,
                 current_price, mode, pc, monitorLocals, checkVars, ufpVars,
                 runs, obs>>

HandlerCleanup ==
  /\ hstack # <<>> /\ Top = "h189"
  /\ cleanup
  /\ obs' = [obs EXCEPT !.quits = QuitsAfterCleanup]
  /\ hstack' = SetTop("h190")
  /\ UNCHANGED <<globalVars, recordVars, purchase_attempted, current_price,
                 clockVars, mode, pc, monitorLocals, checkVars, ufpVars,
                 runs>>

HandlerVerify ==
  /\ hstack # <<>> /\ Top = "h190"
  /\ verify_browser_closed
  /\ hstack' = SetTop("h194")
  /\ UNCHANGED <<globalVars, recordVars, purchase_attempted, current_price,
                 clockVars, mode, pc, monitorLocals, checkVars, ufpVars,
                 runs, obs>>

\* A handler that skips line 194 (C6 does not hold of it).
HandlerLeavesFlag == exit_requested
\* lines 194-195.
HandlerRequestsExit == TRUE
HandlerSetFlags ==
  /\ hstack # <<>> /\ Top = "h194"
  /\ exit_requested' = HandlerRequestsExit
  /\ exit_in_progress' = FALSE
  /\ hstack' = SetTop("h197")
  /\ UNCHANGED <<browserVars, recordVars, purchase_attempted, current_price,
                 clockVars, mode, pc, monitorLocals, checkVars, ufpVars,
                 runs, obs>>

\* line 197: sys.exit(0) raises SystemExit through every handler frame into
\* the code the main thread was running.
HandlerRaise ==
  /\ hstack # <<>> /\ Top = "h197"
  /\ pc \notin InResult
  /\ hstack' = <<>>
  /\ \E t \in ExitTargets(pc, depth) : pc' = t[1] /\ depth' = t[2]
  /\ UNCHANGED <<globalVars, browserVars, recordVars, purchase_attempted,
                 current_price, clockVars, mode, api_check_counter,
                 is_in_stock, price, checkVars, ufpVars, runs, obs>>

\* The same, landing inside future.result() of async_check_stock (lines
\* 1085-1090): the bare except swallows it and the loop takes the next future.
HandlerRaiseInResult ==
  /\ hstack # <<>> /\ Top = "h197"
  /\ pc \in InResult
  /\ hstack' = <<>>
  /\ pc' = "m_wait"
  /\ IF pc = "m_result_api"
     THEN /\ api_future' = [api_future EXCEPT !.st = "consumed"]
          /\ UNCHANGED browser_future
     ELSE /\ browser_future' = [browser_future EXCEPT !.st = "consumed"]
          /\ UNCHANGED api_future
  /\ UNCHANGED <<globalVars, browserVars, recordVars, purchase_attempted,
                 current_price, clockVars, mode, monitorLocals, leftover,
                 ufpVars, runs, obs>>

\* A second passes on the clock that line 179 compares with.
Tick ==
  /\ mode = "main" /\ Alive
  /\ has_last_ctrl_c_time /\ since_ctrl_c < ForceWindow
  /\ since_ctrl_c' = since_ctrl_c + 1
  /\ UNCHANGED <<globalVars, browserVars, recordVars, purchase_attempted,
                 current_price, has_last_ctrl_c_time, mode, pc, monitorLocals,
                 hstack, checkVars, ufpVars, runs, obs>>

\* ---- mark_as_purchased (lines 307-318)
\* io is what the file system does: "ok"; "open_fails" (the file is left as
\* it was); "dump_fails" (the file is left truncated).  Either failure is
\* swallowed and purchase_successful keeps its value.
IoOutcomes == {"ok", "open_fails", "dump_fails"}
FileAfterMark(io) ==
  CASE io = "ok" -> Dumped(purchase_record \cup {ThisUrl})
    [] io = "open_fails" -> file
    [] OTHER -> Truncated
FlagAfterMark(io) == purchase_successful \/ io = "ok"
mark_as_purchased(io) ==
  /\ purchase_record' = purchase_record \cup {ThisUrl}
  /\ file' = FileAfterMark(io)
  /\ purchase_successful' = FlagAfterMark(io)

\* The main thread runs its own code only while no handler is on its stack.
MainRuns(m) == mode = m /\ hstack = <<>>

\* ---- monitor (lines 1094-1267)
\* A monitor without the test of line 1101 (C2 does not hold of it).
NeverSkips == FALSE
\* lines 1101-1104: already purchased: cleanup and return, before the try.
SkipsWhenPurchased == has_been_purchased
MonitorEntry ==
  /\ MainRuns("main") /\ pc = "m_entry"
  /\ obs' = [obs EXCEPT !.entry_recorded = has_been_purchased,
                        !.call_checked = FALSE, !.call_attempted = FALSE,
                        !.quits = IF SkipsWhenPurchased
                                    THEN QuitsAfterCleanup ELSE @]
  /\ IF SkipsWhenPurchased
       THEN /\ cleanup_to_quit
            /\ IF CleanupQuits
                 THEN pc' = "m_entry_quit" /\ depth' = depth
                 ELSE IF depth > 0
                 THEN pc' = "m_finally" /\ depth' = depth - 1
                 ELSE pc' = "main_finally" /\ depth' = depth
            /\ UNCHANGED api_check_counter
       ELSE /\ pc' = "m_while"
            /\ api_check_counter' = 0
            /\ UNCHANGED <<browserVars, depth>>
  /\ is_in_stock' = FALSE /\ price' = NoPrice
  /\ UNCHANGED <<globalVars, recordVars, purchase_attempted, current_price,
                 clockVars, mode, hstack, checkVars, ufpVars, runs>>

\* The cleanup of the finally (lines 1266-1267) after the return of line
\* 1104, from the return of driver.quit() on.
MonitorEntryQuit ==
  /\ MainRuns("main") /\ pc = "m_entry_quit"
  /\ cleanup_after_quit
  /\ IF depth > 0
       THEN pc' = "m_finally" /\ depth' = depth - 1
       ELSE pc' = "main_finally" /\ depth' = depth
  /\ UNCHANGED <<globalVars, recordVars, purchase_attempted, current_price,
                 clockVars, mode, api_check_counter, is_in_stock, price,
                 hstack, checkVars, ufpVars, runs, obs>>

\* A loop that ends once an attempt has been made: the price of the last
\* result is still there (C20 does not hold of it).
StopsAfterAttempt == ~purchase_successful /\ ~exit_requested /\ price = NoPrice
\* line 1118.
LoopContinues == ~purchase_successful /\ ~exit_requested
MonitorWhile ==
  /\ MainRuns("main") /\ pc = "m_while"
  /\ pc' = IF LoopContinues THEN "m_iter" ELSE "m_finally"
  /\ UNCHANGED <<globalVars, browserVars, recordVars, purchase_attempted,
                 current_price, clockVars, mode, monitorLocals, hstack,
                 checkVars, ufpVars, runs, obs>>

\* lines 1119-1134.  Whether the hundredth checking iteration has come and
\* 900 s have passed since the last refresh is an input.
MonitorIter ==
  /\ MainRuns("main") /\ pc = "m_iter"
  /\ obs' = [obs EXCEPT !.iter_attempt = FALSE]
  /\ IF api_check_counter + 1 >= ApiCheckEvery
       THEN /\ api_check_counter' = 0
            /\ \E refresh \in BOOLEAN :
                 pc' = IF refresh THEN "m_refresh" ELSE "m_check"
       ELSE /\ api_check_counter' = api_check_counter + 1
            /\ pc' = "m_sleep"
  /\ UNCHANGED <<globalVars, browserVars, recordVars, purchase_attempted,
                 current_price, clockVars, mode, depth, is_in_stock, price,
                 hstack, checkVars, ufpVars, runs>>

\* refresh_browser_periodically (lines 1062-1075): every failure is caught.
MonitorRefresh ==
  /\ MainRuns("main") /\ pc = "m_refresh"
  /\ pc' = "m_check"
  /\ UNCHANGED <<globalVars, browserVars, recordVars, purchase_attempted,
                 current_price, clockVars, mode, monitorLocals, hstack,
                 checkVars, ufpVars, runs, obs>>

\* ---- the two stock checks (lines 650-750), each a task of api_pool
\* What a check finds on the page: the product unavailable (or the request
\* failing), available with no price found, or available at a price.
Unavailable == [avail |-> FALSE, found |-> NoPrice]
Outcomes == {Unavailable} \cup
            {[avail |-> TRUE, found |-> p] : p \in {NoPrice} \cup Prices}
FoundPrice(o) == o.avail /\ o.found # NoPrice
PriceOf(o) == IF FoundPrice(o) THEN o.found ELSE NoPrice

\* check_stock_via_api: lines 742-746 return True when no price was found.
check_stock_via_api(o) ==
  o.avail /\ (IF o.found # NoPrice THEN o.found <= MaxPrice ELSE TRUE)

\* A browser check that answers True for an available product whatever it
\* found of a price (C14 as amended does not hold of it).
AvailableOnly(o) == o.avail
\* check_stock_and_price: lines 673-677 and 691-696; False without a price.
check_stock_and_price(o) ==
  o.avail /\ o.found # NoPrice /\ o.found <= MaxPrice

\* update_price_status (lines 139-143), called only with a price found.
update_price_status(o) ==
  current_price' = IF FoundPrice(o) THEN o.found ELSE current_price

ApiCheckRuns ==
  /\ Alive /\ api_future.st = "pending"
  /\ \E o \in Outcomes :
       /\ update_price_status(o)
       /\ api_future' = [st |-> "done", result |-> check_stock_via_api(o),
                         seen |-> PriceOf(o)]
  /\ UNCHANGED <<globalVars, browserVars, recordVars, purchase_attempted,
                 clockVars, mode, pc, monitorLocals, hstack, browser_future,
                 leftover, ufpVars, runs, obs>>

\* With the driver gone every driver call raises and the check returns False.
BrowserOutcomes == IF driver = "chrome" THEN Outcomes ELSE {Unavailable}
BrowserCheckRuns ==
  /\ Alive /\ browser_future.st = "pending"
  /\ \E o \in BrowserOutcomes :
       /\ update_price_status(o)
       /\ browser_future' = [st |-> "done", result |-> check_stock_and_price(o),
                             seen |-> PriceOf(o)]
  /\ UNCHANGED <<globalVars, browserVars, recordVars, purchase_attempted,
                 clockVars, mode, pc, monitorLocals, hstack, api_future,
                 leftover, ufpVars, runs, obs>>

\* A check that async_check_stock stopped waiting for runs to its end.
LeftoverRuns ==
  /\ Alive
  /\ \E k \in {"api", "browser"} :
       /\ leftover[k] > 0
       /\ leftover' = [leftover EXCEPT ![k] = @ - 1]
       /\ \E o \in (IF k = "api" THEN Outcomes ELSE BrowserOutcomes) :
            update_price_status(o)
  /\ UNCHANGED <<globalVars, browserVars, recordVars, purchase_attempted,
                 clockVars, mode, pc, monitorLocals, hstack, api_future,
                 browser_future, ufpVars, runs, obs>>

\* ---- async_check_stock (lines 1077-1092)
LeftoverCount == leftover["api"] + leftover["browser"]

\* lines 1079-1082: submit raises RuntimeError once the pool is shut down.
MonitorCheck ==
  /\ MainRuns("main") /\ pc = "m_check"
  /\ IF pools_shutdown
       THEN /\ pc' = "m_except"
            /\ UNCHANGED <<api_future, browser_future, obs>>
       ELSE /\ LeftoverCount < MaxLeftover
            /\ api_future' = Pending /\ browser_future' = Pending
            /\ pc' = "m_wait"
            /\ obs' = [obs EXCEPT !.call_checked = TRUE,
                          !.check_after_stop =
                             @ \/ purchase_successful \/ exit_requested,
                          !.after_click = @ \/ obs.clicked]
  /\ UNCHANGED <<globalVars, browserVars, recordVars, purchase_attempted,
                 current_price, clockVars, mode, monitorLocals, hstack,
                 leftover, ufpVars, runs>>

\* line 1088: the price returned with True is the field as it is then.
ReturnedPrice == current_price

StillPending(f, k) == IF f.st = "pending" THEN 1 ELSE 0

\* lines 1084-1090: as_completed hands over a finished future.
MonitorTakeResult ==
  /\ MainRuns("main") /\ pc = "m_wait"
  /\ \E k \in {"api", "browser"} :
       LET f == IF k = "api" THEN api_future ELSE browser_future
           other == IF k = "api" THEN browser_future ELSE api_future
           ok == IF k = "api" THEN "browser" ELSE "api"
       IN /\ f.st = "done"
          /\ IF f.result
               THEN /\ is_in_stock' = TRUE /\ price' = ReturnedPrice
                    /\ pc' = "m_decide"
                    /\ api_future' = NoFuture /\ browser_future' = NoFuture
                    /\ leftover' = [leftover EXCEPT
                                      ![ok] = @ + StillPending(other, ok)]
               ELSE /\ api_future' = IF k = "api"
                                       THEN [f EXCEPT !.st = "consumed"]
                                       ELSE api_future
                    /\ browser_future' = IF k = "browser"
                                           THEN [f EXCEPT !.st = "consumed"]
                                           ELSE browser_future
                    /\ UNCHANGED <<is_in_stock, price, pc, leftover>>
  /\ UNCHANGED <<globalVars, browserVars, recordVars, purchase_attempted,
                 current_price, clockVars, mode, depth, api_check_counter,
                 hstack, ufpVars, runs, obs>>

\* line 1092: neither check returned True.
MonitorNoResult ==
  /\ MainRuns("main") /\ pc = "m_wait"
  /\ api_future.st = "consumed" /\ browser_future.st = "consumed"
  /\ is_in_stock' = FALSE /\ price' = NoPrice
  /\ pc' = "m_decide"
  /\ api_future' = NoFuture /\ browser_future' = NoFuture
  /\ UNCHANGED <<globalVars, browserVars, recordVars, purchase_attempted,
                 current_price, clockVars, mode, depth, api_check_counter,
                 hstack, leftover, ufpVars, runs, obs>>

\* A monitor that also compares the price with max_price (C7 as amended
\* does not hold of it).
StartsAttemptWithinMax == is_in_stock /\ price # NoPrice /\ price <= MaxPrice
\* lines 1137-1146: the purchase attempt starts only with a price.
StartsAttempt == is_in_stock /\ price # NoPrice
MonitorDecide ==
  /\ MainRuns("main") /\ pc = "m_decide"
  /\ IF StartsAttempt
       THEN /\ pc' = "a_load"
            /\ obs' = [obs EXCEPT !.call_attempted = TRUE,
                                  !.iter_attempt = TRUE,
                                  !.after_click = @ \/ obs.clicked]
       ELSE /\ pc' = "m_sleep"
            /\ UNCHANGED obs
  /\ UNCHANGED <<globalVars, browserVars, recordVars, purchase_attempted,
                 current_price, clockVars, mode, monitorLocals, hstack,
                 checkVars, ufpVars, runs>>

\* ---- the purchase attempt of monitor (lines 1144-1252)
\* A browser step succeeds only with a driver; whether it does is an input.
BrowserAnswers == IF driver = "chrome" THEN BOOLEAN ELSE {FALSE}

Goto(p) ==
  /\ pc' = p
  /\ UNCHANGED <<globalVars, browserVars, recordVars, purchase_attempted,
                 current_price, clockVars, mode, monitorLocals, hstack,
                 checkVars, ufpVars, runs, obs>>

\* line 1146; a failure is caught at line 1240.
AttemptLoad ==
  /\ MainRuns("main") /\ pc = "a_load"
  /\ \E ok \in BrowserAnswers : Goto(IF ok THEN "a_buy_now" ELSE "a_after")

\* lines 1150-1155, Approach 1; Approach 2 is in its exception handler.
AttemptBuyNow ==
  /\ MainRuns("main") /\ pc = "a_buy_now"
  /\ \E ok \in BrowserAnswers : Goto(IF ok THEN "a_bn_order" ELSE "a_cart")

\* An attempt that goes on to Approach 2 when the Buy Now loop found no
\* order button (C13 as amended does not hold of it).
FallsBackToCart(p) == IF p = "a_bn_order" THEN "a_cart" ELSE "a_after"
\* lines 1164-1177 and 1225-1236: the order-button loop ends with no button
\* clicked and raises nothing, so the handler of line 1178, which holds
\* Approach 2, is not entered: the attempt is over.
NoOrderPlaced(p) == "a_after"

\* lines 1164-1170 and 1225-1231: one of the three order buttons is clicked,
\* or none is found and the loop ends.
AttemptOrder ==
  /\ MainRuns("main") /\ pc \in {"a_bn_order", "a_cart_order"}
  /\ \E clicked \in BrowserAnswers :
       /\ pc' = IF ~clicked THEN NoOrderPlaced(pc)
                ELSE IF pc = "a_bn_order" THEN "a_bn_mark" ELSE "a_cart_mark"
       /\ obs' = [obs EXCEPT !.clicked = @ \/ clicked]
  /\ UNCHANGED <<globalVars, browserVars, recordVars, purchase_attempted,
                 current_price, clockVars, mode, monitorLocals, hstack,
                 checkVars, ufpVars, runs>>

\* lines 1171 and 1232.
AttemptMark ==
  /\ MainRuns("main") /\ pc \in {"a_bn_mark", "a_cart_mark"}
  /\ \E io \in IoOutcomes : mark_as_purchased(io)
  /\ pc' = IF pc = "a_bn_mark" THEN "a_bn_cleanup" ELSE "a_cart_cleanup"
  /\ obs' = [obs EXCEPT !.marked = TRUE]
  /\ UNCHANGED <<globalVars, browserVars, purchase_attempted, current_price,
                 clockVars, mode, monitorLocals, hstack, checkVars, ufpVars,
                 runs>>

\* lines 1172-1173 and 1233-1234: cleanup, then return through the finally.
AttemptCleanupReturn ==
  /\ MainRuns("main") /\ pc \in {"a_bn_cleanup", "a_cart_cleanup"}
  /\ cleanup_to_quit
  /\ obs' = [obs EXCEPT !.quits = QuitsAfterCleanup]
  /\ pc' = IF ~CleanupQuits THEN "m_finally"
           ELSE IF pc = "a_bn_cleanup" THEN "a_bn_quit" ELSE "a_cart_quit"
  /\ UNCHANGED <<globalVars, recordVars, purchase_attempted, current_price,
                 clockVars, mode, monitorLocals, hstack, checkVars, ufpVars,
                 runs>>

\* The same cleanup from the return of driver.quit() on, then the return.
AttemptQuitReturn ==
  /\ MainRuns("main") /\ pc \in {"a_bn_quit", "a_cart_quit"}
  /\ cleanup_after_quit
  /\ pc' = "m_finally"
  /\ UNCHANGED <<globalVars, recordVars, purchase_attempted, current_price,
                 clockVars, mode, monitorLocals, hstack, checkVars, ufpVars,
                 runs, obs>>

\* lines 1183-1190; a failure is caught at line 1237.
AttemptCart ==
  /\ MainRuns("main") /\ pc = "a_cart"
  /\ \E ok \in BrowserAnswers :
       Goto(IF ok THEN "a_cart_checkout" ELSE "a_after")

\* lines 1193-1222: only driver.get(cart_url) can raise out of this part.
AttemptCartCheckout ==
  /\ MainRuns("main") /\ pc = "a_cart_checkout"
  /\ \E ok \in BrowserAnswers :
       Goto(IF ok THEN "a_cart_order" ELSE "a_after")

\* lines 1243-1252.
AttemptAfter ==
  /\ MainRuns("main") /\ pc = "a_after"
  /\ purchase_attempted' = FALSE
  /\ pc' = "m_sleep"
  /\ UNCHANGED <<globalVars, browserVars, recordVars, current_price,
                 clockVars, mode, monitorLocals, hstack, checkVars, ufpVars,
                 runs, obs>>

\* lines 1254-1257; update_terminal_display writes to the terminal, and a
\* failing write is an Exception that escapes the loop.
MonitorSleep ==
  /\ MainRuns("main") /\ pc = "m_sleep"
  /\ \/ Goto("m_while")
     \/ depth < MaxRestarts /\ Goto("m_except")

\* A handler that restarts whatever exit_requested is (C12 does not hold of
\* it).
AlwaysRestarts == TRUE
\* lines 1261-1265.
RestartsMonitor == ~exit_requested
MonitorExcept ==
  /\ MainRuns("main") /\ pc = "m_except"
  /\ IF RestartsMonitor /\ depth < MaxRestarts
       THEN pc' = "m_entry" /\ depth' = depth + 1
       ELSE pc' = "m_finally" /\ depth' = depth
  /\ UNCHANGED <<globalVars, browserVars, recordVars, purchase_attempted,
                 current_price, clockVars, mode, api_check_counter,
                 is_in_stock, price, hstack, checkVars, ufpVars, runs, obs>>

\* lines 1266-1267, once per monitor frame being left.
MonitorFinally ==
  /\ MainRuns("main") /\ pc = "m_finally"
  /\ cleanup
  /\ obs' = [obs EXCEPT !.quits = QuitsAfterCleanup]
  /\ IF depth > 0
       THEN pc' = "m_finally" /\ depth' = depth - 1
       ELSE pc' = "main_finally" /\ depth' = depth
  /\ UNCHANGED <<globalVars, recordVars, purchase_attempted, current_price,
                 clockVars, mode, api_check_counter, is_in_stock, price,
                 hstack, checkVars, ufpVars, runs>>

\* __main__ lines 1433-1435, then the atexit hook of line 114.
MainFinally ==
  /\ MainRuns("main") /\ pc \in {"main_finally", "atexit"}
  /\ cleanup
  /\ obs' = [obs EXCEPT !.quits = QuitsAfterCleanup]
  /\ pc' = IF pc = "main_finally" THEN "atexit" ELSE "exited"
  /\ api_future' = IF pc = "atexit" THEN NoFuture ELSE api_future
  /\ browser_future' = IF pc = "atexit" THEN NoFuture ELSE browser_future
  /\ leftover' = IF pc = "atexit" THEN [k \in {"api", "browser"} |-> 0]
                 ELSE leftover
  /\ UNCHANGED <<globalVars, recordVars, purchase_attempted, current_price,
                 clockVars, mode, monitorLocals, hstack, ufpVars, runs>>

\* ---- a later bot over the same file
\* The process has ended (or, for a caller of the API, whenever it likes): a
\* new AmazonUltraFastBot is constructed and load_purchase_record reads the
\* file as it then is.  The model follows the new bot no further than its
\* construction; a bot that starts with the product recorded is an initial
\* state.
Restart ==
  /\ runs = 1
  /\ \/ pc \in {"exited", "killed"}
     \/ mode = "api" /\ pc = "u_idle"
  /\ exit_requested' = FALSE /\ exit_in_progress' = FALSE
  /\ self_exit_requested' = FALSE
  /\ driver' = "chrome" /\ browser_pid' = "pid" /\ pools_shutdown' = FALSE
  /\ purchase_record' = load_purchase_record(file) /\ file' = file
  /\ purchase_attempted' = FALSE /\ purchase_successful' = FALSE
  /\ current_price' = NoPrice
  /\ has_last_ctrl_c_time' = FALSE /\ since_ctrl_c' = 0
  /\ mode' = mode /\ pc' = "constructed"
  /\ depth' = 0 /\ api_check_counter' = 0
  /\ is_in_stock' = FALSE /\ price' = NoPrice /\ hstack' = <<>>
  /\ api_future' = NoFuture /\ browser_future' = NoFuture
  /\ leftover' = [k \in {"api", "browser"} |-> 0]
  /\ strategy' = [s \in Strategies |-> "none"]
  /\ lingering' = [running |-> 0, marking |-> 0]
  /\ rounds' = 0 /\ ufp_return' = "none"
  /\ runs' = runs + 1
  /\ obs' = [NoObs EXCEPT !.prev_successful = purchase_successful]

\* ---- ultra_fast_purchase (lines 752-807) and its strategy threads
Count(st) == Cardinality({s \in Strategies : strategy[s] = st})
LingeringCount == lingering.running + lingering.marking
\* Worker threads of purchase_pool that are busy.
Busy == Count("running") + Count("marking") + LingeringCount

Str(b) == IF b THEN "True" ELSE "False"

\* A guard that forgets purchase_attempted (C4 does not hold of it).
BlockedOnlyWhenPurchased == has_been_purchased
\* line 754.
UfpBlocked == has_been_purchased \/ purchase_attempted

\* lines 754-757.  The caller is taken to call again only when at most
\* MaxLingering strategies of the earlier rounds are still at work.
UfpCall ==
  /\ MainRuns("api") /\ pc = "u_idle"
  /\ rounds < MaxRounds
  /\ Count("queued") = 0
  /\ Busy <= MaxLingering
  /\ rounds' = rounds + 1
  /\ IF UfpBlocked
       THEN /\ ufp_return' = "False"
            /\ obs' = [obs EXCEPT !.blocked_entry = TRUE]
            /\ UNCHANGED <<pc, purchase_attempted>>
       ELSE /\ purchase_attempted' = TRUE
            /\ pc' = "u_submit"
            /\ ufp_return' = "none"
            /\ UNCHANGED obs
  /\ UNCHANGED <<globalVars, browserVars, recordVars, current_price,
                 clockVars, mode, monitorLocals, hstack, checkVars, strategy,
                 lingering, runs>>

\* ThreadPoolExecutor.submit starts a worker thread for the task while fewer
\* than max_workers threads are busy, and queues the task otherwise.
Submitted(s, busy) == IF busy + s <= PurchaseWorkers THEN "running" ELSE "queued"

\* lines 771-782; submit raises once the pool is shut down, and the handler
\* of lines 804-807 resets purchase_attempted and returns False.
UfpSubmit ==
  /\ MainRuns("api") /\ pc = "u_submit"
  /\ IF pools_shutdown
       THEN /\ purchase_attempted' = FALSE
            /\ ufp_return' = "False"
            /\ pc' = "u_idle"
            /\ UNCHANGED <<strategy, lingering, obs>>
       ELSE /\ lingering' = [running |-> lingering.running + Count("running"),
                             marking |-> lingering.marking + Count("marking")]
            /\ strategy' = [s \in Strategies |-> Submitted(s, Busy)]
            /\ pc' = "u_poll"
            /\ obs' = [obs EXCEPT !.submitted = TRUE,
                                  !.idle_round = (Busy = 0),
                                  !.round_clicks = 0,
                                  !.bn_clicked = FALSE]
            /\ UNCHANGED <<purchase_attempted, ufp_return>>
  /\ UNCHANGED <<globalVars, browserVars, recordVars, current_price,
                 clockVars, mode, monitorLocals, hstack, checkVars, rounds,
                 runs>>

\* A queued strategy starts when a worker thread becomes free.
StrategyStarts ==
  /\ mode = "api" /\ Alive
  /\ Busy < PurchaseWorkers
  /\ \E s \in Strategies :
       /\ strategy[s] = "queued"
       /\ strategy' = [strategy EXCEPT ![s] = "running"]
  /\ UNCHANGED <<globalVars, browserVars, recordVars, purchase_attempted,
                 current_price, clockVars, mode, pc, monitorLocals, hstack,
                 checkVars, lingering, rounds, ufp_return, runs, obs>>

\* A strategy returns without a place-order click (no button, a timeout, an
\* exception: lines 824-826, 830-832, 856-861, 880-882, 1008-1011, 1057-1060).
StrategyGivesUp ==
  /\ mode = "api" /\ Alive
  /\ \/ \E s \in Strategies :
          /\ strategy[s] = "running"
          /\ strategy' = [strategy EXCEPT ![s] = "done"]
          /\ UNCHANGED lingering
     \/ /\ lingering.running > 0
        /\ lingering' = [lingering EXCEPT !.running = @ - 1]
        /\ UNCHANGED strategy
  /\ UNCHANGED <<globalVars, browserVars, recordVars, purchase_attempted,
                 current_price, clockVars, mode, pc, monitorLocals, hstack,
                 checkVars, rounds, ufp_return, runs, obs>>

\* buy_now_strategy is the second strategy of the list (line 774).
BuyNow == 2
\* What reading driver.current_url after the click (line 958) gives: an
\* order-confirmation URL, another URL, or an exception of the driver.
UrlReads == {"confirmation", "other", "raises"}
\* Whether mark_as_purchased follows a reported click.  It follows at once
\* in lines 839-840, 852-854, 1006-1007 and 1055-1056; buy_now_strategy
\* sleeps and reads current_url first (lines 952-971), on either URL it
\* marks, and a raising read ends it in the handler of lines 973-975.
MarksAfterClick(s, url) == s # BuyNow \/ url # "raises"

\* A strategy clicks a place-order button and enters mark_as_purchased:
\* lines 310-314, the dict entry and open(file, 'w'), which truncates.  A
\* failing open is swallowed and the strategy returns.
StrategyClicks ==
  /\ mode = "api" /\ Alive
  /\ driver = "chrome"
  /\ \/ \E s \in Strategies, opened \in BOOLEAN, url \in UrlReads :
          /\ strategy[s] = "running"
          /\ IF MarksAfterClick(s, url)
               THEN /\ purchase_record' = purchase_record \cup {ThisUrl}
                    /\ file' = IF opened THEN Truncated ELSE file
                    /\ strategy' = [strategy EXCEPT
                                      ![s] = IF opened THEN "marking"
                                             ELSE "done"]
               ELSE /\ strategy' = [strategy EXCEPT ![s] = "done"]
                    /\ UNCHANGED <<purchase_record, file>>
          /\ obs' = [obs EXCEPT !.round_clicks = IF @ = 0 THEN 1 ELSE 2,
                                !.bn_clicked = @ \/ s = BuyNow]
          /\ UNCHANGED lingering
     \/ \E opened \in BOOLEAN :
          /\ lingering.running > 0
          /\ purchase_record' = purchase_record \cup {ThisUrl}
          /\ file' = IF opened THEN Truncated ELSE file
          /\ lingering' = [running |-> lingering.running - 1,
                           marking |-> lingering.marking +
                                         (IF opened THEN 1 ELSE 0)]
          /\ UNCHANGED <<strategy, obs>>
  /\ UNCHANGED <<globalVars, browserVars, purchase_successful,
                 purchase_attempted, current_price, clockVars, mode, pc,
                 monitorLocals, hstack, checkVars, rounds, ufp_return, runs>>

\* lines 315-316: json.dump and the close, then the flag; a failing dump
\* leaves the file truncated and the flag as it was.
StrategyDumps ==
  /\ mode = "api" /\ Alive
  /\ \E dumped \in BOOLEAN :
       /\ file' = IF dumped THEN Dumped(purchase_record) ELSE file
       /\ purchase_successful' = (purchase_successful \/ dumped)
  /\ \/ \E s \in Strategies :
          /\ strategy[s] = "marking"
          /\ strategy' = [strategy EXCEPT ![s] = "done"]
          /\ UNCHANGED lingering
     \/ /\ lingering.marking > 0
        /\ lingering' = [lingering EXCEPT !.marking = @ - 1]
        /\ UNCHANGED strategy
  /\ UNCHANGED <<globalVars, browserVars, purchase_record,
                 purchase_attempted, current_price, clockVars, mode, pc,
                 monitorLocals, hstack, checkVars, rounds, ufp_return, runs,
                 obs>>

\* A cancel() that also stops a started task (C10 does not hold of it).
CancelStarted(st) == IF st \in {"queued", "running", "marking"} THEN "cancelled" ELSE st
\* Future.cancel() (line 790) cancels a future that has not started and does
\* nothing to one that is running or finished.
Cancel(st) == IF st = "queued" THEN "cancelled" ELSE st

\* lines 786-792: a poll within the window that finds the flag set.
UfpPollSuccess ==
  /\ MainRuns("api") /\ pc = "u_poll"
  /\ purchase_successful
  /\ strategy' = [s \in Strategies |-> Cancel(strategy[s])]
  /\ ufp_return' = "True"
  /\ pc' = "u_idle"
  /\ UNCHANGED <<globalVars, browserVars, recordVars, purchase_attempted,
                 current_price, clockVars, mode, monitorLocals, hstack,
                 checkVars, lingering, rounds, runs, obs>>

\* A loop that is left only when every strategy of the round has ended, as
\* a join of the futures would have it (C11 does not hold of it).
AllStrategiesEnded == Count("queued") + Count("running") + Count("marking") = 0
\* line 786: the loop condition reads the clock and nothing else, so the
\* window is over max_wait seconds after its start whatever the strategies do.
PollWindowOver == TRUE

\* line 786: max_wait seconds have passed.
UfpPollTimeout ==
  /\ MainRuns("api") /\ pc = "u_poll"
  /\ PollWindowOver
  /\ pc' = "u_timeout"
  /\ UNCHANGED <<globalVars, browserVars, recordVars, purchase_attempted,
                 current_price, clockVars, mode, monitorLocals, hstack,
                 checkVars, ufpVars, runs, obs>>

\* A return of purchase_attempted in place of the flag (C9 does not hold of it).
ReturnsAttempted == purchase_attempted
\* line 802.
TimeoutReturn == purchase_successful

\* A timeout path without the reset of line 799 (C19 does not hold of it).
KeepsAttempted(on_checkout) == purchase_attempted
\* lines 795-799: the flag is left alone on a checkout URL and reset on
\* any other.
AttemptedAfterTimeout(on_checkout) == purchase_attempted /\ on_checkout

\* lines 795-807; driver.current_url raises when the driver is None.
UfpTimeout ==
  /\ MainRuns("api") /\ pc = "u_timeout"
  /\ pc' = "u_idle"
  /\ IF driver = "None"
       THEN /\ purchase_attempted' = FALSE
            /\ ufp_return' = "False"
            /\ obs' = [obs EXCEPT !.on_checkout = FALSE]
       ELSE /\ \E on_checkout \in BOOLEAN :
                 /\ purchase_attempted' = AttemptedAfterTimeout(on_checkout)
                 /\ obs' = [obs EXCEPT !.on_checkout = on_checkout]
            /\ ufp_return' = Str(TimeoutReturn)
  /\ UNCHANGED <<globalVars, browserVars, recordVars, current_price,
                 clockVars, mode, monitorLocals, hstack, checkVars, strategy,
                 lingering, rounds, runs>>

\* The caller closes the bot between two calls (cleanup is what __main__
\* calls on its checker).
CallerCleanup ==
  /\ MainRuns("api") /\ pc = "u_idle"
  /\ driver = "chrome"
  /\ cleanup
  /\ obs' = [obs EXCEPT !.quits = QuitsAfterCleanup]
  /\ UNCHANGED <<globalVars, recordVars, purchase_attempted, current_price,
                 clockVars, mode, pc, monitorLocals, hstack, checkVars,
                 ufpVars, runs>>

Next ==
  \/ Signal \/ HandlerAlreadyInProgress \/ HandlerEnter \/ HandlerForce
  \/ HandlerFirstPress \/ HandlerCleanup \/ HandlerVerify \/ HandlerSetFlags
  \/ HandlerRaise \/ HandlerRaiseInResult \/ Tick
  \/ MonitorEntry \/ MonitorEntryQuit \/ MonitorWhile \/ MonitorIter
  \/ MonitorRefresh
  \/ ApiCheckRuns \/ BrowserCheckRuns \/ LeftoverRuns
  \/ MonitorCheck \/ MonitorTakeResult \/ MonitorNoResult \/ MonitorDecide
  \/ AttemptLoad \/ AttemptBuyNow \/ AttemptOrder \/ AttemptMark
  \/ AttemptCleanupReturn \/ AttemptQuitReturn \/ AttemptCart
  \/ AttemptCartCheckout
  \/ AttemptAfter \/ MonitorSleep \/ MonitorExcept \/ MonitorFinally
  \/ MainFinally
  \/ UfpCall \/ UfpSubmit \/ StrategyStarts \/ StrategyGivesUp
  \/ StrategyClicks \/ StrategyDumps \/ UfpPollSuccess \/ UfpPollTimeout
  \/ UfpTimeout \/ CallerCleanup
  \/ Restart

Spec == Init /\ [][Next]_vars

\* ======================================================================
\* The claims
\* ======================================================================

\* C1: a purchase attempt of monitor is started only with a price, handed
\* over by async_check_stock, that is at or below max_price.
C1_AttemptOnlyAtOrBelowMax == pc = "a_load" => price <= MaxPrice

\* C2: when the product URL is already in the purchase record at the call of
\* monitor, monitor makes no stock check and no purchase attempt; it has
\* called cleanup, which is still inside driver.quit() or has cleared the
\* driver, and is then past its return.
AfterMonitor == {"m_finally", "main_finally", "atexit", "exited", "killed"}
C2_NoCheckWhenAlreadyPurchased ==
  obs.entry_recorded =>
    /\ ~obs.call_checked /\ ~obs.call_attempted
    /\ self_exit_requested
    /\ \/ pc = "m_entry_quit"
       \/ driver = "None" /\ pc \in AfterMonitor
C2_Witness == obs.entry_recorded /\ pc = "exited" /\ ~exit_requested

\* C3: after mark_as_purchased has set purchase_successful, a bot constructed
\* later over the same file reports has_been_purchased.
C3_RoundTrip == (pc = "constructed" /\ obs.prev_successful) => has_been_purchased

\* C4: a call of ultra_fast_purchase made when the product has been purchased
\* or purchase_attempted is set returns False and submits no strategy.
C4_BlockedCallSubmitsNothing ==
  [][(rounds' = rounds + 1
        /\ (ThisUrl \in purchase_record \/ purchase_attempted))
      => (ufp_return' = "False" /\ pc' = "u_idle"
            /\ strategy' = strategy /\ lingering' = lingering
            /\ purchase_attempted' = purchase_attempted)]_vars
C4_Witness ==
  obs.blocked_entry /\ purchase_attempted /\ ~has_been_purchased
    /\ ufp_return = "False"

\* C5: a second signal arriving within 2 seconds of the first forces the
\* exit, at whatever point of the first one's handling it arrives: no such
\* signal is answered with "Exit already in progress".
C5_SecondSignalForcesExit == ~obs.ignored_in_window

\* C6: when the handler of a single signal raises its exit (line 197),
\* cleanup has been called, driver and browser_pid are None and the global
\* exit_requested is True.
AtRaise == \E i \in 1..Len(hstack) : hstack[i] = "h197"
C6_CleanShutdownAtExit ==
  AtRaise => /\ self_exit_requested
             /\ driver = "None" /\ browser_pid = "None"
             /\ exit_requested
C6_Witness == hstack = <<"h197">> /\ ~obs.ignored_in_window /\ pc = "m_wait"

MonitorReturned == {"main_finally", "atexit", "exited"}
C8_StopsAfterSuccessOrExit ==
  /\ ~obs.check_after_stop
  /\ ~obs.after_click
  /\ (obs.clicked /\ pc \in MonitorReturned)
       => (obs.marked /\ self_exit_requested)

\* C9: ultra_fast_purchase returns True only with purchase_successful set;
\* the flag is set only by a step that completes mark_as_purchased, with the
\* product written to the record file; and a poll that finds the flag set
\* returns True at once, whatever the other strategies are doing, while a
\* poll that finds it unset does not return.
MarkCompletes ==
  \/ \E s \in Strategies : strategy[s] = "marking" /\ strategy'[s] = "done"
  \/ lingering'.marking < lingering.marking
  \/ pc \in {"a_bn_mark", "a_cart_mark"}
C9_SingleFlagSignalsSuccess ==
  /\ [](ufp_return = "True" => purchase_successful)
  /\ [][/\ (purchase_successful' /\ ~purchase_successful)
             => (MarkCompletes /\ file'.valid /\ ThisUrl \in file'.keys)
        /\ (pc = "u_poll" /\ pc' = "u_idle")
             => (purchase_successful /\ ufp_return' = "True")
        /\ (pc = "u_poll" /\ ~purchase_successful)
             => pc' \in {"u_poll", "u_timeout"}]_vars
C9_Witness ==
  /\ ufp_return = "True" /\ pc = "u_idle" /\ purchase_successful
  /\ Count("running") > 0

\* ---- the caller of ultra_fast_purchase alone, with its strategy threads
\* scheduled fairly: a queued strategy gets a free worker thread, and a
\* running strategy ends (every wait of a strategy has a timeout) or
\* clicks, and a strategy inside mark_as_purchased finishes it.
InitApi == \E f \in {Dumped({}), Dumped({ThisUrl})} : Constructed(f, "api", 1, NoObs)
NextApi ==
  \/ UfpCall \/ UfpSubmit \/ StrategyStarts \/ StrategyGivesUp
  \/ StrategyClicks \/ StrategyDumps \/ UfpPollSuccess \/ UfpPollTimeout
  \/ UfpTimeout \/ CallerCleanup
FairSpec ==
  /\ InitApi /\ [][NextApi]_vars
  /\ WF_vars(StrategyStarts) /\ WF_vars(StrategyGivesUp)
  /\ WF_vars(StrategyDumps)

\* ---- the caller of ultra_fast_purchase with only the main thread
\* scheduled fairly: the main thread goes on (the clock of line 786
\* advances, driver.current_url answers or raises), while nothing is
\* assumed of the strategy threads, which may never take a step.
FairCallerSpec ==
  /\ InitApi /\ [][NextApi]_vars
  /\ WF_vars(UfpSubmit) /\ WF_vars(UfpPollTimeout) /\ WF_vars(UfpTimeout)

\* C10: in a round submitted to an idle purchase pool all six strategies
\* are started (none is queued, none is cancelled); no step, the cancel()
\* calls after success included, takes a started strategy anywhere but on
\* to its own end; and every started strategy does end, also after
\* ultra_fast_purchase has returned.
Started == {"running", "marking"}
C10_StartedStrategiesRunToCompletion ==
  /\ [](obs.idle_round =>
          \A s \in Strategies : strategy[s] \in Started \cup {"done"})
  /\ [][\A s \in Strategies :
          (strategy[s] \in Started /\ pc # "u_submit")
            => strategy'[s] \in Started \cup {"done"}]_vars
  /\ (obs.idle_round /\ Count("done") < NumStrategies)
       ~> (Count("done") = NumStrategies \/ ~obs.idle_round)
C10_Witness ==
  /\ obs.idle_round /\ ufp_return = "True" /\ pc = "u_idle"
  /\ Count("running") + Count("marking") = NumStrategies - 1

\* C11: every call of ultra_fast_purchase returns, with True or False, also
\* when no strategy thread ever finishes or sets the flag: nothing in it
\* waits for a strategy.
InCall == pc \in {"u_submit", "u_poll", "u_timeout"}
C11_CallAlwaysReturns ==
  InCall ~> (pc = "u_idle" /\ ufp_return \in {"True", "False"})
C11_Witness ==
  /\ pc = "u_idle" /\ ufp_return = "False" /\ rounds = 1
  /\ Count("running") = NumStrategies /\ ~purchase_successful

\* C12: when an Exception has escaped the monitoring loop, monitor calls
\* itself again if the global exit_requested is False and goes to its
\* finally without restarting if it is True; and whenever the outermost
\* monitor call has returned, cleanup has been called (the browser is
\* closed).
C12_RetryOnException ==
  /\ [][(pc = "m_except" /\ hstack = <<>> /\ pc' # pc)
          => IF exit_requested
               THEN pc' = "m_finally" /\ depth' = depth
               ELSE pc' = "m_entry" /\ depth' = depth + 1]_vars
  /\ [](pc \in MonitorReturned => (self_exit_requested /\ driver = "None"))
C12_Witness == depth > 0 /\ pc = "m_wait" /\ ~exit_requested

\* C13 as claimed: whenever Approach 1 (Buy Now) ends without an order
\* placed, the attempt goes on to Approach 2 (Add to Cart).
C13_CartTriedAfterBuyNow ==
  [][(pc \in {"a_buy_now", "a_bn_order"} /\ hstack = <<>> /\ pc' # pc)
      => pc' \in {"a_bn_order", "a_bn_mark", "a_cart"}]_vars

\* C13 as amended: Approach 2 is tried when, and only when, Approach 1
\* raised an Exception up to its Buy Now click; when Buy Now was clicked and
\* no order button could be clicked, the attempt ends without Approach 2.
C13_CartTriedOnlyAfterBuyNowRaised ==
  /\ [][(pc = "a_buy_now" /\ hstack = <<>> /\ pc' # pc)
          => pc' \in {"a_bn_order", "a_cart"}]_vars
  /\ [][(pc = "a_bn_order" /\ hstack = <<>> /\ pc' # pc)
          => pc' \in {"a_bn_mark", "a_after"}]_vars
  /\ [][(pc' = "a_cart" /\ pc # "a_cart") => pc = "a_buy_now"]_vars
C13_Witness == pc = "a_cart" /\ driver = "chrome" /\ ~exit_requested

\* C14 as claimed: a stock check that returned True found the product
\* available and extracted a price at or below max_price.
Returned(f) == f.st \in {"done", "consumed"} /\ f.result
WithinMax(p) == p # NoPrice /\ p <= MaxPrice
C14_TrueOnlyWithPriceWithinMax ==
  /\ Returned(api_future) => WithinMax(api_future.seen)
  /\ Returned(browser_future) => WithinMax(browser_future.seen)

\* C14 as amended: check_stock_and_price returns True only for an available
\* product with an extracted price at or below max_price;
\* check_stock_via_api returns True only for an available product whose
\* extracted price is at or below max_price or for which it extracted no
\* price at all.
C14_TrueOnlyWithinMaxOrUnpriced ==
  /\ \A o \in Outcomes :
        /\ check_stock_and_price(o) => (o.avail /\ WithinMax(o.found))
        /\ check_stock_via_api(o)
             => (o.avail /\ (o.found = NoPrice \/ WithinMax(o.found)))
  /\ Returned(browser_future) => WithinMax(browser_future.seen)
  /\ Returned(api_future)
       => (api_future.seen = NoPrice \/ WithinMax(api_future.seen))
C14_Witness ==
  /\ api_future.st = "done" /\ api_future.result
  /\ api_future.seen = NoPrice /\ current_price > MaxPrice

\* C15: the price async_check_stock returns together with True is the price
\* seen by a check that returned True in this call.
C15_ReturnedPriceIsTheCheckers ==
  [][(pc = "m_wait" /\ pc' = "m_decide" /\ is_in_stock')
      => \E f \in {api_future, browser_future} :
           f.st = "done" /\ f.result /\ price' = f.seen]_vars

\* C16: async_check_stock returns (True, current_price) if one of the two
\* checks of the call returned True and (False, None) otherwise.
SomeCheckTrue == api_future.result \/ browser_future.result
C16_TrueIffSomeCheckTrue ==
  [][(pc = "m_wait" /\ pc' = "m_decide")
      => /\ is_in_stock' = SomeCheckTrue
         /\ price' = IF SomeCheckTrue THEN current_price ELSE NoPrice]_vars

\* C17: within one ultra_fast_purchase round at most one strategy clicks a
\* place-order button and calls mark_as_purchased.  obs.round_clicks counts
\* (up to two) the clicks of the strategies submitted by the latest round.
C17_OneOrderPerRound == obs.round_clicks <= 1

\* C18: once ultra_fast_purchase has returned False for a round, that
\* round's strategies cause no later change of purchase_successful or of the
\* purchase record.  With the caller back from the call, the flag still
\* False and the result False, the strategies in "strategy" are those of a
\* round that returned False; a step of one of them changes "strategy".
C18_NoChangeAfterFalseReturn ==
  [][(/\ pc = "u_idle" /\ ufp_return = "False" /\ ~purchase_successful
      /\ strategy' # strategy)
        => UNCHANGED <<purchase_successful, purchase_record, file>>]_vars

\* C19: a call of ultra_fast_purchase that ends without success leaves
\* purchase_attempted True exactly when the browser is on a checkout URL,
\* and resets it when it is not or when an exception was raised in the
\* call; after a reset a call with nothing purchased starts a new round,
\* and while the flag stays True it stays True for good and every later
\* call returns False and submits nothing.  obs.on_checkout is the outcome
\* of the URL test of line 795 (False when the test raised).
C19_AttemptedResetUnlessOnCheckout ==
  /\ [][(pc = "u_timeout" /\ pc' = "u_idle")
          => /\ purchase_attempted' = obs'.on_checkout
             /\ driver = "None" => ~purchase_attempted']_vars
  /\ [][(pc = "u_submit" /\ pc' = "u_idle") => ~purchase_attempted']_vars
  /\ [][(rounds' = rounds + 1 /\ ~purchase_attempted /\ ~has_been_purchased)
          => (pc' = "u_submit" /\ purchase_attempted')]_vars
  /\ [][(pc = "u_idle" /\ purchase_attempted /\ pc' # "constructed")
          => /\ purchase_attempted' /\ pc' = "u_idle"
             /\ rounds' # rounds
                  => (ufp_return' = "False" /\ UNCHANGED <<strategy, lingering>>)]_vars
C19_Witness ==
  /\ pc = "u_idle" /\ purchase_attempted /\ obs.on_checkout
  /\ obs.blocked_entry /\ ~has_been_purchased /\ ~purchase_successful
  /\ rounds = 2 /\ Count("running") > 0

\* C20: after a purchase attempt of monitor that placed no order,
\* purchase_attempted is reset to False and the loop goes on: lines
\* 1243-1252 end in the sleep of the iteration (or in the exception handler
\* when the terminal write fails), and the loop condition, with no purchase
\* and no exit requested, starts the next iteration.
C20_LoopContinuesAfterFailedAttempt ==
  /\ [][(pc = "a_after" /\ hstack = <<>> /\ pc' # pc)
          => (~purchase_attempted' /\ pc' = "m_sleep")]_vars
  /\ [][(pc = "m_sleep" /\ hstack = <<>> /\ pc' # pc)
          => pc' \in {"m_while", "m_except"}]_vars
  /\ [][(/\ pc = "m_while" /\ hstack = <<>> /\ pc' # pc
         /\ ~purchase_successful /\ ~exit_requested)
          => pc' = "m_iter"]_vars
  /\ [](mode = "main" /\ pc \in {"m_sleep", "m_while", "m_iter"}
          => ~purchase_attempted)
C20_Witness ==
  /\ pc = "m_wait" /\ hstack = <<>> /\ obs.call_attempted /\ ~obs.clicked
  /\ ~exit_requested /\ ~purchase_successful /\ ~purchase_attempted
  /\ depth = 0

\* C21: while exit_in_progress is True a further signal neither runs
\* cleanup nor force-closes the browser: its handler returns at line 172
\* and changes nothing, so at most one handler call is inside the shutdown
\* sequence of lines 177-195 at a time, and that call is the one running.
InShutdown == {i \in 1..Len(hstack) : hstack[i] \in {"h189", "h190", "h194"}}
AfterCleanup ==
  \/ pc \in {"main_finally", "atexit", "exited"}
  \/ \E i \in 1..Len(hstack) : hstack[i] \in {"h190", "h194", "h197"}
C22_ClearsBothFields == AfterCleanup => (driver = "None" /\ browser_pid = "None")
C22_NoQuitWithoutDriver == [][obs'.quits # obs.quits => (driver # "None" \/ pc' = "constructed")]_vars
C22_QuitAtMostOnce == obs.quits <= 1
C22_CleanupIdempotent ==
  /\ []C22_ClearsBothFields
  /\ C22_NoQuitWithoutDriver
  /\ []C22_QuitAtMostOnce

\* C23: buy_now_strategy marks the product as purchased whenever its
\* place-order script reports a click, whether or not the browser went to
\* an order-confirmation URL, and does not mark it when no click was
\* reported or the Buy Now button was not clickable.  obs.bn_clicked turns
\* True in the step in which the script of the round's buy_now_strategy
\* reports a click; mark_as_purchased begins with the entry in
\* purchase_record.
C23_BuyNowMarksWheneverClicked ==
  [][(strategy[BuyNow] = "running" /\ strategy'[BuyNow] \in {"marking", "done"})
      => IF obs'.bn_clicked /\ ~obs.bn_clicked
           THEN ThisUrl \in purchase_record'
           ELSE UNCHANGED <<purchase_record, file, purchase_successful>>]_vars

\* C24: while monitor drives the browser through its purchase sequence
\* (lines 1144-1238), no task of check_stock_and_price submitted by
\* async_check_stock is still running on the same driver.
InPurchaseSequence ==
  pc \in {"a_load", "a_buy_now", "a_bn_order", "a_cart", "a_cart_checkout",
          "a_cart_order"}
C24_NoCheckDuringPurchase ==
  (mode = "main" /\ InPurchaseSequence /\ hstack = <<>> /\ driver = "chrome")
    => leftover["browser"] = 0
====
